---- MODULE Spec2Model ----
(***************************************************************************)
(* A model of snapText.js (pqina/snaptext): the snapshot call (the default *)
(* export), the text-line probe (getTextNodeLines / getTextShapes), the    *)
(* normalizer (normalizeShapes), the projector (getSizeFromShapes,         *)
(* shapesToSvg) and the text encoder (encodeSvgText).                      *)
(*                                                                         *)
(* A JavaScript string is a sequence of one-character strings.  A number   *)
(* that only takes part in comparisons, additions and subtractions is an   *)
(* integer; the numbers of shapesToSvg, which divides, are exact rationals *)
(* (Rat and Num below), with the values undefined and NaN kept apart.      *)
(***************************************************************************)
EXTENDS Integers, Sequences, FiniteSets, TLC

VARIABLES
    \* encodeSvgText: the argument, the returned string, the position
    encIn, encOut, encPc,
    \* the line probe: the text node, what getTextNodeLines returned, what
    \* getTextShapes returned (or threw), the position
    prNode, prLines, prShapes, prPc,
    \* normalizeShapes: the argument, the returned list, the position
    nmIn, nmOut, nmPc,
    \* shapesToSvg: the shapes, the options, the document, the position
    svShapes, svOpts, svOut, svPc,
    \* the snapshot call: its arguments, its position, the locals element,
    \* format, shapes and svg, what it returned or threw, and the calls it
    \* has made to the measurement, style and URL boundaries
    snTarget, snOptions, snPc, snElement, snFormat, snShapes, snSvg,
    snResult, snError, snOps

encVars == <<encIn, encOut, encPc>>
prVars == <<prNode, prLines, prShapes, prPc>>
nmVars == <<nmIn, nmOut, nmPc>>
svVars == <<svShapes, svOpts, svOut, svPc>>
snVars == <<snTarget, snOptions, snPc, snElement, snFormat, snShapes, snSvg,
            snResult, snError, snOps>>
notEnc == <<prVars, nmVars, svVars, snVars>>
notPr == <<encVars, nmVars, svVars, snVars>>
notNm == <<encVars, prVars, svVars, snVars>>
notSv == <<encVars, prVars, nmVars, snVars>>
notSn == <<encVars, prVars, nmVars, svVars>>

vars == <<encVars, prVars, nmVars, svVars, snVars>>

(***************************************************************************)
(* Generic helpers                                                         *)
(***************************************************************************)
\* all sequences over S of length 0..n
SeqsUpTo(S, n) == UNION {[1..m -> S] : m \in 0..n}

\* does `pat` occur in `str` starting at position i (1-based)
MatchesAt(str, i, pat) ==
    /\ i >= 1
    /\ i + Len(pat) - 1 <= Len(str)
    /\ \A j \in 1..Len(pat) : str[i + j - 1] = pat[j]

\* does `pat` occur somewhere in `str`
Contains(str, pat) == \E i \in 1..(Len(str) + 1) : MatchesAt(str, i, pat)

(***************************************************************************)
(* encodeSvgText (src/snapText.js 260-267)                                 *)
(***************************************************************************)
RECURSIVE replaceAll(_, _, _)
\* String.prototype.replace with a one-character global regex: every
\* occurrence of ch becomes rep; the replacement text is not rescanned.
replaceAll(str, ch, rep) ==
    IF str = <<>> THEN <<>>
    ELSE (IF Head(str) = ch THEN rep ELSE <<Head(str)>>) \o replaceAll(Tail(str), ch, rep)

EntAmp  == <<"&", "a", "m", "p", ";">>
EntNbsp == <<"&", "#", "1", "6", "0", ";">>
EntLt   == <<"&", "l", "t", ";">>
EntGt   == <<"&", "g", "t", ";">>
EscPct  == <<"%", "2", "5">>
EscHash == <<"%", "2", "3">>

\* the chain with the space pass moved before the '#' pass
encodeSvgText_SpaceBeforeHash(str) ==
    LET s1 == replaceAll(str, "&", EntAmp)
        s2 == replaceAll(s1, "%", EscPct)
        s3 == replaceAll(s2, " ", EntNbsp)
        s4 == replaceAll(s3, "#", EscHash)
        s5 == replaceAll(s4, "<", EntLt)
    IN  replaceAll(s5, ">", EntGt)

encodeSvgText(str) ==
    LET s1 == replaceAll(str, "&", EntAmp)
        s2 == replaceAll(s1, "%", EscPct)
        s3 == replaceAll(s2, "#", EscHash)
        s4 == replaceAll(s3, " ", EntNbsp)
        s5 == replaceAll(s4, "<", EntLt)
    IN  replaceAll(s5, ">", EntGt)

(***************************************************************************)
(* Shapes: toShape, getTextNodeLines, getTextShapes (src/snapText.js)      *)
(***************************************************************************)
\* The styles we register: <<property, value to ignore>>
RelevantShapeStyles ==
    << <<"color", "rgba(0, 0, 0, 0)">>,
       <<"background-color", "rgba(0, 0, 0, 0)">>,
       <<"font-size", "0px">>,
       <<"font-family", "sans-serif">>,
       <<"font-weight", "400">>,
       <<"font-style", "normal">>,
       <<"font-variant", "normal">> >>

StyleProps == {RelevantShapeStyles[i][1] : i \in 1..Len(RelevantShapeStyles)}

\* the position of a tracked property in RelevantShapeStyles
StyleIndex ==
    [p \in StyleProps |->
        (CHOOSE i \in 1..Len(RelevantShapeStyles) : RelevantShapeStyles[i][1] = p) ]

IgnoredValue(p) == RelevantShapeStyles[StyleIndex[p]][2]

\* a computed style: a function from property name to value (getPropertyValue)
StyleAllDefault == [p \in StyleProps |-> IgnoredValue(p)]
StyleRed  == [StyleAllDefault EXCEPT !["color"] = "rgb(255, 0, 0)"]
StyleBold == [StyleAllDefault EXCEPT !["font-weight"] = "700", !["font-size"] = "16px"]
ComputedStyles == {StyleAllDefault, StyleRed, StyleBold}

\* clientRects[index] past the end of the list: undefined
UndefinedRect == [def |-> FALSE, x |-> 0, y |-> 0, width |-> 0, height |-> 0]

\* What a shape-collecting function did: the list it returned, or the error
\* it threw, and the getComputedStyle and getClientRects calls it made.
NoShapes == [err |-> "none", shapes |-> <<>>, styleLookups |-> 0, rectQueries |-> 0]

\* toShape on a rect that is a DOMRect (rect.x of undefined is a TypeError,
\* raised in getTextShapes below)
toShape(rect, style, text) ==
    [ x |-> rect.x,
      y |-> rect.y,
      width |-> rect.width,
      height |-> rect.height,
      styles |-> SelectSeq(
                    [i \in 1..Len(RelevantShapeStyles) |->
                        <<RelevantShapeStyles[i][1], style[RelevantShapeStyles[i][1]]>>],
                    LAMBDA pv : pv[2] # IgnoredValue(pv[1])),
      text |-> text ]

IsSpace(c) == c \in {" ", "\t", "\n"}

RECURSIVE trimStart(_)
trimStart(str) ==
    IF str # <<>> /\ IsSpace(Head(str)) THEN trimStart(Tail(str)) ELSE str

RECURSIVE trimEnd(_)
trimEnd(str) ==
    IF str # <<>> /\ IsSpace(str[Len(str)])
    THEN trimEnd(SubSeq(str, 1, Len(str) - 1)) ELSE str

\* String.prototype.trim
trim(str) == trimEnd(trimStart(str))

RECURSIVE linesLoop(_, _, _, _)
\* the for loop of getTextNodeLines at character i (1-based): counts[i] is
\* range.getClientRects().length for the selection [0, i).  lines[lineIndex]
\* is undefined when lineIndex is -1 or past the end of the array.
linesLoop(text, counts, i, lines) ==
    IF i > Len(text) THEN lines
    ELSE LET lineIndex == counts[i] - 1
             char == <<text[i]>>
             seen == lineIndex >= 0 /\ lineIndex < Len(lines)
         IN  linesLoop(text, counts, i + 1,
                 IF ~seen THEN Append(lines, char)
                 ELSE [lines EXCEPT ![lineIndex + 1] = @ \o char])

\* whitespace-only lines dropped before the lines are paired with the rects
getTextNodeLines_FilterBeforeZip(textNode) ==
    LET text == textNode.nodeValue
        lines == SelectSeq(linesLoop(text, textNode.counts, 1, <<>>),
                           LAMBDA l : trim(l) # <<>>)
        clientRects == textNode.rects
    IN  IF text = <<>> THEN <<>>
        ELSE [index \in 1..Len(lines) |->
                [ rect |-> IF index <= Len(clientRects) THEN clientRects[index]
                           ELSE UndefinedRect,
                  text |-> lines[index] ]]

getTextNodeLines(textNode) ==
    LET text == textNode.nodeValue
        lines == linesLoop(text, textNode.counts, 1, <<>>)
        clientRects == textNode.rects
    IN  IF text = <<>> THEN <<>>
        ELSE [index \in 1..Len(lines) |->
                [ rect |-> IF index <= Len(clientRects) THEN clientRects[index]
                           ELSE UndefinedRect,
                  text |-> lines[index] ]]

\* toShape reads rect.x: a TypeError when a kept line's rect is undefined.
\* getTextNodeLines queries the rectangles once per character and once more
\* for the whole run.
getTextShapes(textNode) ==
    IF textNode.nodeValue = <<>> \/ ~textNode.hasParent THEN NoShapes
    ELSE IF trim(textNode.nodeValue) = <<>> THEN NoShapes
    ELSE LET computedStyle == textNode.parentStyle
             textNodeLines == getTextNodeLines(textNode)
             kept == SelectSeq(textNodeLines, LAMBDA l : trim(l.text) # <<>>)
             thrown == \E k \in 1..Len(kept) : ~kept[k].rect.def
         IN  [ err |-> IF thrown THEN "TypeError" ELSE "none",
               shapes |-> IF thrown THEN <<>>
                          ELSE [k \in 1..Len(kept) |->
                                  toShape(kept[k].rect, computedStyle, kept[k].text)],
               styleLookups |-> 1,
               rectQueries |-> Len(textNode.nodeValue) + 1 ]

\* getShape: no shapes for a node that is not a text node; a text node's
\* shapes moved by the offset
getShape(element, offset) ==
    IF element.nodeType # 3 THEN NoShapes
    ELSE LET r == getTextShapes(element)
         IN  [r EXCEPT !.shapes =
                 [k \in 1..Len(r.shapes) |->
                     [r.shapes[k] EXCEPT !.x = @ - offset.x, !.y = @ - offset.y]]]

RECURSIVE getShapes(_, _)
RECURSIVE childrenLoop(_, _, _, _)
\* the for...of loop of getShapes from child i; a throw ends the traversal
childrenLoop(nodes, i, offset, acc) ==
    IF i > Len(nodes) THEN acc
    ELSE LET r == getShapes(nodes[i], offset)
             sum == [ err |-> r.err,
                      shapes |-> IF r.err = "none" THEN acc.shapes \o r.shapes ELSE <<>>,
                      styleLookups |-> acc.styleLookups + r.styleLookups,
                      rectQueries |-> acc.rectQueries + r.rectQueries ]
         IN  IF r.err # "none" THEN sum ELSE childrenLoop(nodes, i + 1, offset, sum)

\* self first, then the children in document order
getShapes(element, offset) ==
    LET self == getShape(element, offset)
    IN  IF self.err # "none" THEN self
        ELSE childrenLoop(element.childNodes, 1, offset, self)

(***************************************************************************)
(* normalizeShapes, getSizeFromShapes (src/snapText.js 205-246)            *)
(***************************************************************************)
\* Number.MAX_SAFE_INTEGER (2^53 - 1 in the source).  TLC's integers are 32
\* bits wide, so the model keeps a smaller sentinel; like the source's, it
\* is larger than every coordinate a shape of the model holds.
MAX_SAFE_INTEGER == 1000000

RECURSIVE topLeftLoop(_, _, _, _)
\* the first loop of normalizeShapes from shape i: the running <<l, t>>
topLeftLoop(shapes, i, l, t) ==
    IF i > Len(shapes) THEN <<l, t>>
    ELSE topLeftLoop(shapes, i + 1,
             IF shapes[i].x < l THEN shapes[i].x ELSE l,
             IF shapes[i].y < t THEN shapes[i].y ELSE t)

\* the running minimum started at 0 instead of the largest number
normalizeShapes_MinFromZero(shapes) ==
    LET lt == topLeftLoop(shapes, 1, 0, 0)
    IN  [i \in 1..Len(shapes) |->
            [shapes[i] EXCEPT !.x = @ - lt[1], !.y = @ - lt[2]]]

normalizeShapes(shapes) ==
    LET lt == topLeftLoop(shapes, 1, MAX_SAFE_INTEGER, MAX_SAFE_INTEGER)
    IN  [i \in 1..Len(shapes) |->
            [shapes[i] EXCEPT !.x = @ - lt[1], !.y = @ - lt[2]]]

RECURSIVE sizeLoop(_, _, _, _, _, _)
\* the loop of getSizeFromShapes from shape i: the running <<l, t, r, b>>
sizeLoop(shapes, i, l, t, r, b) ==
    IF i > Len(shapes) THEN <<l, t, r, b>>
    ELSE LET shape == shapes[i]
         IN  sizeLoop(shapes, i + 1,
                 IF shape.x < l THEN shape.x ELSE l,
                 IF shape.y < t THEN shape.y ELSE t,
                 IF shape.x + shape.width > r THEN shape.x + shape.width ELSE r,
                 IF shape.y + shape.height > b THEN shape.y + shape.height ELSE b)

getSizeFromShapes(shapes) ==
    LET ltrb == sizeLoop(shapes, 1, MAX_SAFE_INTEGER, MAX_SAFE_INTEGER, 0, 0)
    IN  [width |-> ltrb[3] - ltrb[1], height |-> ltrb[4] - ltrb[2]]

(***************************************************************************)
(* JavaScript numbers of shapesToSvg: exact rationals n/d (d > 0, lowest   *)
(* terms), undefined and NaN.  No input of the model makes a divisor zero. *)
(***************************************************************************)
RECURSIVE GCD(_, _)
GCD(a, b) == IF b = 0 THEN a ELSE GCD(b, a % b)

Abs(i) == IF i < 0 THEN 0 - i ELSE i

Rat(n, d) ==
    LET g == GCD(Abs(n), d)
    IN  [k |-> "num", n |-> n \div g, d |-> d \div g]

Num(i) == [k |-> "num", n |-> i, d |-> 1]
Undefined == [k |-> "undefined", n |-> 0, d |-> 1]
NaN == [k |-> "NaN", n |-> 0, d |-> 1]
Infinity == [k |-> "Infinity", n |-> 1, d |-> 1]
Half == Rat(1, 2)

IsNum(a) == a.k = "num"
\* ToBoolean: undefined, NaN and 0 are falsy
Truthy(a) == IsNum(a) /\ a.n # 0
\* typeof a === 'number'
TypeofNumber(a) == a.k # "undefined"

Add(a, b) == IF IsNum(a) /\ IsNum(b) THEN Rat(a.n * b.d + b.n * a.d, a.d * b.d) ELSE NaN
Sub(a, b) == IF IsNum(a) /\ IsNum(b) THEN Rat(a.n * b.d - b.n * a.d, a.d * b.d) ELSE NaN
Mul(a, b) == IF IsNum(a) /\ IsNum(b) THEN Rat(a.n * b.n, a.d * b.d) ELSE NaN
Div(a, b) ==
    IF ~(IsNum(a) /\ IsNum(b)) THEN NaN
    ELSE IF b.n = 0 THEN (IF a.n = 0 THEN NaN ELSE Infinity)
    ELSE IF b.n > 0 THEN Rat(a.n * b.d, a.d * b.n)
    ELSE Rat(0 - a.n * b.d, a.d * (0 - b.n))
Less(a, b) == a.n * b.d < b.n * a.d
\* Math.min of two numbers
MathMin(a, b) ==
    IF ~(IsNum(a) /\ IsNum(b)) THEN NaN ELSE IF Less(b, a) THEN b ELSE a

(***************************************************************************)
(* shapesToSvg (src/snapText.js 282-362)                                   *)
(***************************************************************************)
\* CssSvgMap[prop] || prop
CssSvgMap(prop) == IF prop = "color" THEN "fill" ELSE prop

RECURSIVE joinStyles(_, _)
\* styles.reduce(...).join(';') from entry i: a string as a token sequence
joinStyles(styles, i) ==
    IF i > Len(styles) THEN <<>>
    ELSE (IF i > 1 THEN <<";">> ELSE <<>>)
         \o <<CssSvgMap(styles[i][1]), ":", styles[i][2]>>
         \o joinStyles(styles, i + 1)

\* the style string of a shape
serializeStyle(styles) == joinStyles(styles, 1) \o <<";dominant-baseline: hanging">>

\* 's' + classCounter
ClassName(counter) == <<"s", counter>>

hasSelector(selectors, style) == \E e \in 1..Len(selectors) : selectors[e].style = style
getSelector(selectors, style) ==
    selectors[CHOOSE e \in 1..Len(selectors) : selectors[e].style = style].selector

\* a class generated for every shape, whether or not its style has one
registerStyle_Always(selectors, style, classCounter) ==
    [ selectors |-> Append(selectors, [style |-> style, selector |-> ClassName(classCounter)]),
      classCounter |-> classCounter + 1 ]

\* if (!selectors.has(style)) selectors.set(style, 's' + classCounter++)
registerStyle(selectors, style, classCounter) ==
    IF ~hasSelector(selectors, style)
    THEN [ selectors |-> Append(selectors, [style |-> style, selector |-> ClassName(classCounter)]),
           classCounter |-> classCounter + 1 ]
    ELSE [ selectors |-> selectors, classCounter |-> classCounter ]

RECURSIVE textLoop(_, _, _, _, _)
\* the content loop from shape i: [textNodes, selectors]
textLoop(shapes, i, textNodes, classCounter, selectors) ==
    IF i > Len(shapes) THEN [textNodes |-> textNodes, selectors |-> selectors]
    ELSE IF shapes[i].text = <<>>
         THEN textLoop(shapes, i + 1, textNodes, classCounter, selectors)
    ELSE LET shape == shapes[i]
             style == serializeStyle(shape.styles)
             reg == registerStyle(selectors, style, classCounter)
         IN  textLoop(shapes, i + 1,
                 Append(textNodes,
                     [ x |-> shape.x, y |-> shape.y,
                       class |-> getSelector(reg.selectors, style),
                       text |-> encodeSvgText(shape.text) ]),
                 reg.classCounter, reg.selectors)

\* the document, as the values the template string interpolates
shapesToSvg(shapes, opts) ==
    LET contentSize == getSizeFromShapes(shapes)
        cw == Num(contentSize.width)
        ch == Num(contentSize.height)
        width0 == opts.width
        height0 == opts.height
        padding1 == IF Truthy(width0) /\ Truthy(opts.padding)
                    THEN MathMin(opts.padding, Mul(width0, Half)) ELSE opts.padding
        padding == IF Truthy(height0) /\ Truthy(padding1)
                   THEN MathMin(padding1, Mul(height0, Half)) ELSE padding1
        paddingDouble == Mul(padding, Num(2))
        aspectRatio == Div(cw, ch)
        sized == TypeofNumber(width0) \/ TypeofNumber(height0)
        onlyWidth == Truthy(width0) /\ ~Truthy(height0)
        onlyHeight == Truthy(height0) /\ ~Truthy(width0)
        both == Truthy(width0) /\ Truthy(height0)
        width == IF sized
                 THEN (IF onlyHeight
                       THEN Add(Mul(Sub(height0, paddingDouble), aspectRatio), paddingDouble)
                       ELSE width0)
                 ELSE Add(cw, paddingDouble)
        height == IF sized
                  THEN (IF onlyWidth
                        THEN Add(Div(Sub(width0, paddingDouble), aspectRatio), paddingDouble)
                        ELSE height0)
                  ELSE Add(ch, paddingDouble)
        contentScalar ==
            IF ~sized THEN Num(1)
            ELSE IF onlyWidth THEN Div(Sub(width0, paddingDouble), cw)
            ELSE IF onlyHeight THEN Div(Sub(height0, paddingDouble), ch)
            ELSE IF both THEN MathMin(Div(Sub(height0, paddingDouble), ch),
                                      Div(Sub(width0, paddingDouble), cw))
            ELSE Num(1)
        content == textLoop(shapes, 1, <<>>, 0, <<>>)
        x == Add(Mul(Sub(Mul(cw, contentScalar), width), Half), padding)
        y == Add(Mul(Sub(Mul(ch, contentScalar), height), Half), padding)
    IN  [ width |-> Mul(width, opts.scalar),
          height |-> Mul(height, opts.scalar),
          viewBox |-> <<x, y, width, height>>,
          styleText |-> [e \in 1..Len(content.selectors) |->
                            [ selector |-> content.selectors[e].selector,
                              style |-> content.selectors[e].style ]],
          translate |-> padding,
          scale |-> contentScalar,
          textNodes |-> content.textNodes ]

(***************************************************************************)
(* The snapshot call (src/snapText.js 21-61, 369-400)                      *)
(***************************************************************************)
FmtCanvas == <<"c", "a", "n", "v", "a", "s">>
FmtImg    == <<"i", "m", "g">>
FmtSvg    == <<"s", "v", "g">>
FmtBlob   == <<"b", "l", "o", "b">>
\* options.format left out
FormatAbsent == <<"(undefined)">>

\* /canvas|img|svg|blob/.test(format): the pattern is not anchored
formatTest(format) ==
    \/ Contains(format, FmtCanvas)
    \/ Contains(format, FmtImg)
    \/ Contains(format, FmtSvg)
    \/ Contains(format, FmtBlob)

NoOps == [bounding |-> 0, rectQueries |-> 0, styleLookups |-> 0,
          created |-> 0, revoked |-> 0]

\* an Element node with the given children and bounding rectangle origin
Element(children, ox, oy) ==
    [ nodeType |-> 1, nodeValue |-> <<>>, hasParent |-> TRUE, counts |-> <<>>,
      rects |-> <<>>, parentStyle |-> StyleAllDefault, childNodes |-> children,
      bounding |-> [x |-> ox, y |-> oy] ]

NoElement == Element(<<>>, 0, 0)

Terminal == {"returned", "thrown"}

\* lines 23-25: null.nodeType is a TypeError; a value that is no string and
\* whose nodeType is not 1 is refused
SnapValidate ==
    /\ snPc = "validate"
    /\ IF snTarget.kind = "null"
       THEN snPc' = "thrown" /\ snError' = "TypeError"
       ELSE IF snTarget.kind # "string" /\ snTarget.nodeType # 1
       THEN snPc' = "thrown" /\ snError' = "InvalidInput"
       ELSE snPc' = "resolve" /\ UNCHANGED snError
    /\ UNCHANGED <<snTarget, snOptions, snElement, snFormat, snShapes, snSvg,
                   snResult, snOps, notSn>>

\* lines 28-34: document.querySelector, or the node itself
SnapResolve ==
    /\ snPc = "resolve"
    /\ IF snTarget.kind = "string" /\ ~snTarget.found
       THEN snPc' = "thrown" /\ snError' = "NotFound" /\ UNCHANGED snElement
       ELSE snPc' = "options" /\ snElement' = snTarget.node /\ UNCHANGED snError
    /\ UNCHANGED <<snTarget, snOptions, snFormat, snShapes, snSvg, snResult,
                   snOps, notSn>>

\* lines 37-40: the default format and the format test
SnapOptions ==
    /\ snPc = "options"
    /\ LET format == IF snOptions.format = FormatAbsent THEN FmtCanvas
                     ELSE snOptions.format
       IN  /\ snFormat' = format
           /\ IF ~formatTest(format)
              THEN snPc' = "thrown" /\ snError' = "InvalidFormat"
              ELSE snPc' = "traverse" /\ UNCHANGED snError
    /\ UNCHANGED <<snTarget, snOptions, snElement, snShapes, snSvg, snResult,
                   snOps, notSn>>

\* line 43: normalizeShapes(getShapes(element, element.getBoundingClientRect()))
SnapTraverse ==
    /\ snPc = "traverse"
    /\ LET r == getShapes(snElement, snElement.bounding)
       IN  /\ snOps' = [snOps EXCEPT !.bounding = @ + 1,
                                     !.rectQueries = @ + r.rectQueries,
                                     !.styleLookups = @ + r.styleLookups]
           /\ IF r.err # "none"
              THEN snPc' = "thrown" /\ snError' = r.err /\ UNCHANGED snShapes
              ELSE /\ snPc' = "project"
                   /\ snShapes' = normalizeShapes(r.shapes)
                   /\ UNCHANGED snError
    /\ UNCHANGED <<snTarget, snOptions, snElement, snFormat, snSvg, snResult, notSn>>

\* lines 46-48
SnapProject ==
    /\ snPc = "project"
    /\ snSvg' = shapesToSvg(snShapes,
                    [ width |-> snOptions.width, height |-> snOptions.height,
                      padding |-> snOptions.padding, scalar |-> snOptions.scalar ])
    /\ IF snFormat = FmtSvg
       THEN snPc' = "returned" /\ snResult' = "svg"
       ELSE snPc' = "blob" /\ UNCHANGED snResult
    /\ UNCHANGED <<snTarget, snOptions, snElement, snFormat, snShapes, snError,
                   snOps, notSn>>

\* lines 51-52
SnapBlob ==
    /\ snPc = "blob"
    /\ IF snFormat = FmtBlob
       THEN snPc' = "returned" /\ snResult' = "blob"
       ELSE snPc' = "toImage" /\ UNCHANGED snResult
    /\ UNCHANGED <<snTarget, snOptions, snElement, snFormat, snShapes, snSvg,
                   snError, snOps, notSn>>

\* line 55 and svgToImage (369-376): URL.createObjectURL, image.src set; the
\* call waits for the image
SnapSvgToImage ==
    /\ snPc = "toImage"
    /\ snOps' = [snOps EXCEPT !.created = @ + 1]
    /\ snPc' = "awaitImage"
    /\ UNCHANGED <<snTarget, snOptions, snElement, snFormat, snShapes, snSvg,
                   snResult, snError, notSn>>

\* image.onload: svgToImage resolves; line 56
ImageOnLoad ==
    /\ snPc = "awaitImage"
    /\ IF snFormat = FmtImg
       THEN snPc' = "returned" /\ snResult' = "img"
       ELSE snPc' = "toCanvas" /\ UNCHANGED snResult
    /\ UNCHANGED <<snTarget, snOptions, snElement, snFormat, snShapes, snSvg,
                   snError, snOps, notSn>>

\* image.onerror: svgToImage rejects and the call with it
ImageOnError ==
    /\ snPc = "awaitImage"
    /\ snPc' = "thrown"
    /\ snError' = "ImageError"
    /\ UNCHANGED <<snTarget, snOptions, snElement, snFormat, snShapes, snSvg,
                   snResult, snOps, notSn>>

\* line 59 and imageToCanvas (383-400): with no 2d context the promise is
\* rejected before URL.revokeObjectURL; with one the URL is revoked
SnapImageToCanvas ==
    /\ snPc = "toCanvas"
    /\ \E ctx \in BOOLEAN :
          IF ~ctx
          THEN snPc' = "thrown" /\ snError' = "NoContext" /\ UNCHANGED snOps
          ELSE /\ snOps' = [snOps EXCEPT !.revoked = @ + 1]
               /\ snPc' = "awaitCanvas"
               /\ UNCHANGED snError
    /\ UNCHANGED <<snTarget, snOptions, snElement, snFormat, snShapes, snSvg,
                   snResult, notSn>>

\* lines 60-61: the canvas, or the end of the function body (undefined)
SnapReturn ==
    /\ snPc = "awaitCanvas"
    /\ snPc' = "returned"
    /\ snResult' = IF snFormat = FmtCanvas THEN "canvas" ELSE "undefined"
    /\ UNCHANGED <<snTarget, snOptions, snElement, snFormat, snShapes, snSvg,
                   snError, snOps, notSn>>

(***************************************************************************)
(* Bounds and inputs                                                       *)
(***************************************************************************)
MaxStrLen == 3
MaxRunLen == 3
MaxRects == 3
MaxCoord == 2
MaxNormShapes == 2
MaxSvgShapes == 3
MaxGeoShapes == 2
MaxChildren == 2
\* the layout the measurement boundary reports: line and character size
LineHeight == 10
CharWidth == 6

\* the characters encodeSvgText is given
Alphabet == {"&", "<", ">", "%", "#", " ", "a", "2"}

\* one rectangle per line of a run laid out at (ox, oy)
LineRects(ox, oy, n) ==
    [k \in 1..n |-> [ def |-> TRUE, x |-> ox, y |-> oy + (k - 1) * LineHeight,
                      width |-> CharWidth * k, height |-> LineHeight ]]

RunChars == {"a", "b", " "}

\* a Text node: its nodeValue, whether it has a parentNode, the rectangle
\* count of every growing selection [0, i), the rectangles of the whole run
\* (the selection of the last iteration), and its parent's computed style
TextNode(text, hasParent, counts, ox, oy, style) ==
    [ nodeType |-> 3, nodeValue |-> text, hasParent |-> hasParent,
      counts |-> counts,
      rects |-> LineRects(ox, oy, IF Len(text) = 0 THEN 0 ELSE counts[Len(text)]),
      parentStyle |-> style, childNodes |-> <<>>,
      bounding |-> [x |-> ox, y |-> oy] ]

\* a shape as getShape leaves it: a line rectangle moved by the root's
\* offset, so x and y may be negative
RawShapes ==
    { [ x |-> x, y |-> y, width |-> w, height |-> LineHeight,
        styles |-> toShape(UndefinedRect, StyleRed, <<>>).styles, text |-> <<"a">> ] :
        x \in (0 - 1)..MaxCoord, y \in (0 - 1)..MaxCoord,
        w \in {CharWidth, 2 * CharWidth} }

\* the styles array toShape builds from a computed style
StylesOf(st) == toShape(UndefinedRect, st, <<>>).styles

\* shapes that differ in text (one of them empty) and style
StyledShapes ==
    { [ x |-> 0, y |-> y, width |-> CharWidth, height |-> LineHeight,
        styles |-> StylesOf(st), text |-> t ] :
        y \in {0, LineHeight}, st \in ComputedStyles, t \in {<<>>, <<"a">>} }

\* shapes that differ in position and size
GeoShapes ==
    { [ x |-> x, y |-> y, width |-> w, height |-> LineHeight,
        styles |-> StylesOf(StyleRed), text |-> <<"a">> ] :
        x \in 0..MaxCoord, y \in {0, LineHeight}, w \in {CharWidth, 2 * CharWidth} }

\* width and height options: absent, zero, narrower than twice the largest
\* padding, wide
SizeOptions == {Undefined, Num(0), Num(20), Num(200)}
PaddingOptions == {Num(0), Num(10), Num(15)}
ScalarOptions == {Num(1), Num(2)}

DefaultOptions ==
    [width |-> Undefined, height |-> Undefined, padding |-> Num(0), scalar |-> Num(1)]

NoDocument ==
    [ width |-> Undefined, height |-> Undefined,
      viewBox |-> <<Undefined, Undefined, Undefined, Undefined>>,
      styleText |-> <<>>, translate |-> Undefined, scale |-> Undefined,
      textNodes |-> <<>> ]

\* the nodes of the trees snapshot is given: a one-line run, a run wrapped
\* onto two lines, a whitespace run, a run the layout reports no rectangle
\* for, and an element holding a one-line run
TreeNodes ==
    { TextNode(<<"a">>, TRUE, <<1>>, 1, MaxCoord, StyleRed),
      TextNode(<<"a", "b">>, TRUE, <<1, 2>>, MaxCoord, 1, StyleBold),
      TextNode(<<" ">>, TRUE, <<1>>, 0, 0, StyleAllDefault),
      TextNode(<<"a">>, TRUE, <<0>>, 0, 0, StyleAllDefault),
      Element(<<TextNode(<<"b">>, TRUE, <<1>>, MaxCoord, MaxCoord, StyleRed)>>, 0, 0) }

Trees == {Element(children, 1, 1) : children \in SeqsUpTo(TreeNodes, MaxChildren)}

\* the first argument: an element, a selector string that matches one or
\* nothing, a text node, a number, null
Targets ==
    { [kind |-> "element", nodeType |-> 1, found |-> TRUE, node |-> t] : t \in Trees }
    \cup { [kind |-> "string", nodeType |-> 0, found |-> TRUE, node |-> t] : t \in Trees }
    \cup { [kind |-> "string", nodeType |-> 0, found |-> FALSE, node |-> NoElement],
           [kind |-> "text", nodeType |-> 3, found |-> TRUE, node |-> NoElement],
           [kind |-> "number", nodeType |-> 0, found |-> TRUE, node |-> NoElement],
           [kind |-> "null", nodeType |-> 0, found |-> TRUE, node |-> NoElement] }

\* the format option: left out, the four formats, and others
Formats ==
    { FormatAbsent, FmtCanvas, FmtImg, FmtSvg, FmtBlob,
      <<"p", "n", "g">>, <<"s", "v", "g", "x">>, <<>> }

SnapOptionSets ==
    { [ format |-> f, width |-> w, height |-> Undefined, padding |-> Num(0),
        scalar |-> Num(1) ] : f \in Formats, w \in {Undefined, Num(200)} }

(***************************************************************************)
(* Initial states and the calls                                            *)
(***************************************************************************)
EncIdle == encIn = <<>> /\ encOut = <<>> /\ encPc = "idle"
PrIdle == prNode = <<>> /\ prLines = <<>> /\ prShapes = NoShapes /\ prPc = "idle"
NmIdle == nmIn = <<>> /\ nmOut = <<>> /\ nmPc = "idle"
SvIdle == svShapes = <<>> /\ svOpts = DefaultOptions /\ svOut = NoDocument /\ svPc = "idle"
SnIdle ==
    /\ snTarget = [kind |-> "null", nodeType |-> 0, found |-> TRUE, node |-> NoElement]
    /\ snOptions = [ format |-> FormatAbsent, width |-> Undefined, height |-> Undefined,
                     padding |-> Num(0), scalar |-> Num(1) ]
    /\ snPc = "idle"
    /\ snElement = NoElement
    /\ snFormat = FormatAbsent
    /\ snShapes = <<>>
    /\ snSvg = NoDocument
    /\ snResult = "none"
    /\ snError = "none"
    /\ snOps = NoOps

EncInit ==
    /\ \E n \in 0..MaxStrLen : encIn \in [1..n -> Alphabet]
    /\ encOut = <<>>
    /\ encPc = "call"

\* a call of encodeSvgText
Encode ==
    /\ encPc = "call"
    /\ encOut' = encodeSvgText(encIn)
    /\ encPc' = "done"
    /\ UNCHANGED <<encIn, notEnc>>

\* the text node probed: every run of 1..MaxRunLen characters with every
\* report of 0..MaxRects rectangles per growing selection
PrInit ==
    /\ \E n \in 1..MaxRunLen :
          \E text \in [1..n -> RunChars], counts \in [1..n -> 0..MaxRects], hp \in BOOLEAN :
              prNode = TextNode(text, hp, counts, 0, MaxCoord, StyleRed)
    /\ prLines = <<>>
    /\ prShapes = NoShapes
    /\ prPc = "call"

\* a call of getTextNodeLines on the node
ProbeLines ==
    /\ prPc = "call"
    /\ prLines' = getTextNodeLines(prNode)
    /\ prPc' = "lines"
    /\ UNCHANGED <<prNode, prShapes, notPr>>

\* a call of getTextShapes on the node
CollectTextShapes ==
    /\ prPc = "lines"
    /\ prShapes' = getTextShapes(prNode)
    /\ prPc' = "done"
    /\ UNCHANGED <<prNode, prLines, notPr>>

NmInit ==
    /\ \E n \in 0..MaxNormShapes : nmIn \in [1..n -> RawShapes]
    /\ nmOut = <<>>
    /\ nmPc = "call"

\* a call of normalizeShapes
Normalize ==
    /\ nmPc = "call"
    /\ nmOut' = normalizeShapes(nmIn)
    /\ nmPc' = "done"
    /\ UNCHANGED <<nmIn, notNm>>

\* the projector is handed normalized shapes: either a list that varies in
\* text and style under the default options, or a list that varies in
\* geometry (the empty list included) under every option combination
SvInit ==
    /\ \/ /\ \E n \in 0..MaxSvgShapes : svShapes \in [1..n -> StyledShapes]
          /\ svOpts = DefaultOptions
       \/ /\ \E n \in 0..MaxGeoShapes :
                \E raw \in [1..n -> GeoShapes] : svShapes = normalizeShapes(raw)
          /\ svOpts \in [ width : SizeOptions, height : SizeOptions,
                          padding : PaddingOptions, scalar : ScalarOptions ]
    /\ svOut = NoDocument
    /\ svPc = "call"

\* a call of shapesToSvg
CallShapesToSvg ==
    /\ svPc = "call"
    /\ svOut' = shapesToSvg(svShapes, svOpts)
    /\ svPc' = "done"
    /\ UNCHANGED <<svShapes, svOpts, notSv>>

SnInit ==
    /\ snTarget \in Targets
    /\ snOptions \in SnapOptionSets
    /\ snPc = "validate"
    /\ snElement = NoElement
    /\ snFormat = FormatAbsent
    /\ snShapes = <<>>
    /\ snSvg = NoDocument
    /\ snResult = "none"
    /\ snError = "none"
    /\ snOps = NoOps

SnapNext ==
    \/ SnapValidate
    \/ SnapResolve
    \/ SnapOptions
    \/ SnapTraverse
    \/ SnapProject
    \/ SnapBlob
    \/ SnapSvgToImage
    \/ ImageOnLoad
    \/ ImageOnError
    \/ SnapImageToCanvas
    \/ SnapReturn

(***************************************************************************)
(* Specifications                                                          *)
(***************************************************************************)
\* calls of encodeSvgText
InitEnc == EncInit /\ PrIdle /\ NmIdle /\ SvIdle /\ SnIdle
NextEnc == Encode
SpecEnc == InitEnc /\ [][NextEnc]_vars

\* calls of getTextNodeLines and getTextShapes
InitProbe == EncIdle /\ PrInit /\ NmIdle /\ SvIdle /\ SnIdle
NextProbe == ProbeLines \/ CollectTextShapes
SpecProbe == InitProbe /\ [][NextProbe]_vars

\* calls of shapesToSvg
InitSvg == EncIdle /\ PrIdle /\ NmIdle /\ SvInit /\ SnIdle
NextSvg == CallShapesToSvg
SpecSvg == InitSvg /\ [][NextSvg]_vars

\* snapshot calls
Init == EncIdle /\ PrIdle /\ NmIdle /\ SvIdle /\ SnInit
Next == SnapNext
Spec == Init /\ [][Next]_vars

\* calls of normalizeShapes: on any list, and the one a snapshot call makes
InitNorm ==
    \/ EncIdle /\ PrIdle /\ NmInit /\ SvIdle /\ SnIdle
    \/ EncIdle /\ PrIdle /\ NmIdle /\ SvIdle /\ SnInit
NextNorm == Normalize \/ SnapNext
SpecNorm == InitNorm /\ [][NextNorm]_vars

(***************************************************************************)
(* encodeSvgText's claim                                                   *)
(***************************************************************************)
Entities == {EntAmp, EntNbsp, EntLt, EntGt}

AmpsBeginEntities(out) ==
    \A i \in 1..Len(out) : out[i] = "&" => \E e \in Entities : MatchesAt(out, i, e)

\* C8 (as stated): the output of encodeSvgText contains no literal '<', '>',
\* '%', '#' or raw space, and every '&' in it begins an entity the encoder
\* produces (&amp; &lt; &gt; &#160;).
C8_NoLiteralSpecials ==
    encPc = "done" =>
        /\ \A i \in 1..Len(encOut) : encOut[i] \notin {"<", ">", "%", "#", " "}
        /\ AmpsBeginEntities(encOut)

\* C8 (amended): the output contains no literal '<', '>' or raw space; every
\* '%' in it begins a percent escape the encoder produces (%25, %23), every
\* '#' is the second character of the entity &#160;, and every '&' begins an
\* entity the encoder produces.
C8_EscapedOutput ==
    encPc = "done" =>
        /\ \A i \in 1..Len(encOut) : encOut[i] \notin {"<", ">", " "}
        /\ \A i \in 1..Len(encOut) :
              encOut[i] = "%" => MatchesAt(encOut, i, EscPct) \/ MatchesAt(encOut, i, EscHash)
        /\ \A i \in 1..Len(encOut) :
              encOut[i] = "#" => MatchesAt(encOut, i - 1, EntNbsp)
        /\ AmpsBeginEntities(encOut)

\* an input holding every special character class has been encoded
C8_Witness ==
    /\ encPc = "done"
    /\ encIn = <<"&", " ", "#">>
    /\ encOut = EntAmp \o EntNbsp \o EscHash

(***************************************************************************)
(* The line probe's claims                                                 *)
(***************************************************************************)
\* the characters of the run whose growing selection reported k rectangles
CharsWithCount(text, counts, k) ==
    LET idx == SelectSeq([i \in 1..Len(text) |-> i], LAMBDA i : counts[i] = k)
    IN  [j \in 1..Len(idx) |-> text[idx[j]]]

RECURSIVE Concat(_)
Concat(ss) == IF ss = <<>> THEN <<>> ELSE Head(ss) \o Concat(Tail(ss))

\* the line indexes (1-based) whose characters are not all whitespace
SurvivingLines(text, counts) ==
    SelectSeq([k \in 1..(MaxRects + 1) |-> k],
              LAMBDA k : trim(CharsWithCount(text, counts, k)) # <<>>)

\* line k (0-based k-1) holds exactly the characters that reported k
\* rectangles and is paired with rectangle k of the whole run; the lines
\* concatenate to the run; the shapes are the surviving lines, each with the
\* rectangle of its own index
LinesAsClaimed ==
    LET text == prNode.nodeValue
        counts == prNode.counts
        rects == prNode.rects
        kept == SurvivingLines(text, counts)
    IN  /\ \A k \in 1..(MaxRects + 1) :
              CharsWithCount(text, counts, k) # <<>> =>
                  /\ k <= Len(prLines)
                  /\ prLines[k].text = CharsWithCount(text, counts, k)
                  /\ k <= Len(rects)
                  /\ prLines[k].rect = rects[k]
        /\ Concat([k \in 1..Len(prLines) |-> prLines[k].text]) = text
        /\ (prPc = "done" /\ prNode.hasParent /\ trim(text) # <<>>) =>
              /\ prShapes.err = "none"
              /\ Len(prShapes.shapes) = Len(kept)
              /\ \A j \in 1..Len(kept) :
                    /\ kept[j] <= Len(rects)
                    /\ prShapes.shapes[j].text = CharsWithCount(text, counts, kept[j])
                    /\ prShapes.shapes[j].x = rects[kept[j]].x
                    /\ prShapes.shapes[j].y = rects[kept[j]].y
                    /\ prShapes.shapes[j].width = rects[kept[j]].width
                    /\ prShapes.shapes[j].height = rects[kept[j]].height

\* the first selection reports one rectangle and every further character
\* reports the same count or one more
Contiguous(counts) ==
    /\ counts[1] = 1
    /\ \A i \in 1..(Len(counts) - 1) : counts[i + 1] \in {counts[i], counts[i] + 1}

\* C9 (as stated): for every run and every sequence of rectangle counts, each
\* at least 1, character i is placed in the line buffer at index c_i - 1, the
\* lines concatenate to the run, line k is paired with rectangle k, and
\* dropping whitespace-only lines leaves every surviving line its rectangle.
C9_AnyCounts ==
    (prPc \in {"lines", "done"} /\ \A i \in 1..Len(prNode.counts) : prNode.counts[i] >= 1)
        => LinesAsClaimed

\* C9 (amended): the same for every sequence of rectangle counts that starts
\* at 1 and never decreases nor grows by more than one per character.
C9_ContiguousCounts ==
    (prPc \in {"lines", "done"} /\ Contiguous(prNode.counts)) => LinesAsClaimed

\* a run wrapped after its first, blank character: the blank line is dropped
\* and the second line keeps the second rectangle
C9_Witness ==
    /\ prPc = "done"
    /\ prNode.nodeValue = <<" ", "a", "b">>
    /\ prNode.counts = <<1, 2, 2>>
    /\ prNode.hasParent
    /\ Len(prLines) = 2
    /\ Len(prShapes.shapes) = 1
    /\ prShapes.shapes[1].y = prNode.rects[2].y

\* C3: a text node, not all whitespace, for which every range-rectangle
\* query returns zero rectangles yields zero lines and zero shapes, and
\* nothing is raised.
C3_ZeroRectsZeroLines ==
    ( /\ prPc = "done"
      /\ \A i \in 1..Len(prNode.counts) : prNode.counts[i] = 0
      /\ prNode.hasParent
      /\ trim(prNode.nodeValue) # <<>> )
        => (prLines = <<>> /\ prShapes.err = "none" /\ prShapes.shapes = <<>>)

(***************************************************************************)
(* normalizeShapes' claim                                                  *)
(***************************************************************************)
\* the least element of a non-empty set of integers
SetMin(S) == CHOOSE m \in S : \A e \in S : m <= e
SetMax(S) == CHOOSE m \in S : \A e \in S : m >= e

\* C7: for every non-empty shape list, after normalizeShapes the least x and
\* the least y over the shapes are exactly 0, and every difference of two
\* x's or two y's, and every width, height, text and styles, is unchanged;
\* so the list a snapshot call hands to shapesToSvg has its origin at 0.
C7_OriginInvariant ==
    /\ (snPc = "project" /\ snShapes # <<>>) =>
          /\ SetMin({snShapes[i].x : i \in 1..Len(snShapes)}) = 0
          /\ SetMin({snShapes[i].y : i \in 1..Len(snShapes)}) = 0
    /\ (nmPc = "done" /\ nmIn # <<>>) =>
        /\ Len(nmOut) = Len(nmIn)
        /\ SetMin({nmOut[i].x : i \in 1..Len(nmOut)}) = 0
        /\ SetMin({nmOut[i].y : i \in 1..Len(nmOut)}) = 0
        /\ \A i, j \in 1..Len(nmIn) :
              /\ nmOut[i].x - nmOut[j].x = nmIn[i].x - nmIn[j].x
              /\ nmOut[i].y - nmOut[j].y = nmIn[i].y - nmIn[j].y
        /\ \A i \in 1..Len(nmIn) :
              /\ nmOut[i].width = nmIn[i].width
              /\ nmOut[i].height = nmIn[i].height
              /\ nmOut[i].text = nmIn[i].text
              /\ nmOut[i].styles = nmIn[i].styles

\* two shapes, neither at the origin, the second above and left of the first
C7_Witness ==
    /\ nmPc = "done"
    /\ Len(nmIn) = 2
    /\ nmIn[1].x = MaxCoord /\ nmIn[1].y = MaxCoord
    /\ nmIn[2].x = 1 /\ nmIn[2].y = 1
    /\ nmOut[2].x = 0 /\ nmOut[2].y = 0
    /\ nmOut[1].x = MaxCoord - 1

(***************************************************************************)
(* The snapshot call's claims                                              *)
(***************************************************************************)
NamedFormats == {FmtSvg, FmtCanvas, FmtImg, FmtBlob}

\* C1: every URL handle the call acquires (URL.createObjectURL) is released
\* exactly once before the call completes, on every outcome: none is released
\* twice and no call ends with an acquired handle unreleased.
C1_HandleReleasedOnce ==
    /\ snOps.revoked <= snOps.created
    /\ snPc \in Terminal => snOps.revoked = snOps.created

\* C2: a call whose format is not exactly one of 'svg', 'canvas', 'img',
\* 'blob' fails with the invalid-format error (once its target is accepted),
\* and every call that returns was given one of the four (or none) and
\* returns the artifact of that format, never undefined.
C2_OnlyFourFormats ==
    /\ ( /\ snPc \in Terminal
         /\ snFormat # FormatAbsent
         /\ snOptions.format \notin NamedFormats \cup {FormatAbsent} )
         => (snPc = "thrown" /\ snError = "InvalidFormat")
    /\ snPc = "returned" =>
         /\ snOptions.format \in NamedFormats \cup {FormatAbsent}
         /\ snResult = ( CASE snFormat = FmtSvg -> "svg"
                           [] snFormat = FmtBlob -> "blob"
                           [] snFormat = FmtImg -> "img"
                           [] OTHER -> "canvas" )

\* C4: a call that fails input validation (a target that is neither an
\* element nor a string, a selector that matches nothing, an unrecognized
\* format) fails, and never queries a range rectangle, looks a computed style
\* up or touches the URL boundary; and a target that is neither an element
\* node nor a string produces the invalid-input failure.
C4_ValidationFailsFast ==
    LET badTarget == snTarget.kind \notin {"element", "string"}
        noMatch == snTarget.kind = "string" /\ ~snTarget.found
        badFormat == snOptions.format \notin NamedFormats \cup {FormatAbsent}
    IN  /\ (badTarget \/ noMatch \/ badFormat) =>
              /\ snOps.rectQueries = 0
              /\ snOps.styleLookups = 0
              /\ snOps.created = 0
              /\ snOps.revoked = 0
              /\ snPc # "returned"
        /\ (badTarget /\ snPc \in Terminal) =>
              (snPc = "thrown" /\ snError = "InvalidInput")

(***************************************************************************)
(* shapesToSvg's claims                                                    *)
(***************************************************************************)
NonNegative(a) == IsNum(a) /\ a.n >= 0

\* C5: for an empty shape list the document's declared width and height are
\* twice the padding when no size is requested and the requested size when
\* one is, and neither the declared size, the viewBox size nor the content
\* scale is negative, NaN or infinite.
C5_EmptyShapesEmptyDocument ==
    (svPc = "done" /\ svShapes = <<>>) =>
        /\ (~TypeofNumber(svOpts.width) /\ ~TypeofNumber(svOpts.height)) =>
              /\ svOut.width = Mul(Mul(svOpts.padding, Num(2)), svOpts.scalar)
              /\ svOut.height = Mul(Mul(svOpts.padding, Num(2)), svOpts.scalar)
        /\ TypeofNumber(svOpts.width) => svOut.width = Mul(svOpts.width, svOpts.scalar)
        /\ TypeofNumber(svOpts.height) => svOut.height = Mul(svOpts.height, svOpts.scalar)
        /\ NonNegative(svOut.width)
        /\ NonNegative(svOut.height)
        /\ NonNegative(svOut.viewBox[3])
        /\ NonNegative(svOut.viewBox[4])
        /\ NonNegative(svOut.scale)

\* the content extents: max(x + width) - min(x), max(y + height) - min(y)
ExtentWidth(shapes) ==
    SetMax({shapes[i].x + shapes[i].width : i \in 1..Len(shapes)})
        - SetMin({shapes[i].x : i \in 1..Len(shapes)})
ExtentHeight(shapes) ==
    SetMax({shapes[i].y + shapes[i].height : i \in 1..Len(shapes)})
        - SetMin({shapes[i].y : i \in 1..Len(shapes)})

\* the four-case table: <<outputWidth, outputHeight, contentScalar>>, a
\* dimension being requested when it is a number, the padding clamped to half
\* of each requested dimension
SizeTable(cw, ch, opts) ==
    LET w == opts.width
        h == opts.height
        reqW == TypeofNumber(w)
        reqH == TypeofNumber(h)
        p1 == IF reqW THEN MathMin(opts.padding, Mul(w, Half)) ELSE opts.padding
        p == IF reqH THEN MathMin(p1, Mul(h, Half)) ELSE p1
        pd == Mul(p, Num(2))
        aspectRatio == Div(cw, ch)
    IN  IF ~reqW /\ ~reqH THEN <<Add(cw, pd), Add(ch, pd), Num(1)>>
        ELSE IF reqW /\ ~reqH
             THEN <<w, Add(Div(Sub(w, pd), aspectRatio), pd), Div(Sub(w, pd), cw)>>
        ELSE IF reqH /\ ~reqW
             THEN <<Add(Mul(Sub(h, pd), aspectRatio), pd), h, Div(Sub(h, pd), ch)>>
        ELSE <<w, h, MathMin(Div(Sub(h, pd), ch), Div(Sub(w, pd), cw))>>

Resolved == <<svOut.viewBox[3], svOut.viewBox[4], svOut.scale>>

\* C6: for every content extent > 0, every padding >= 0 and every width and
\* height, each absent or a non-negative number, shapesToSvg resolves
\* (outputWidth, outputHeight, contentScalar) as the four-case table with the
\* padding clamped to half of each requested dimension.
C6_FourCaseTable ==
    (svPc = "done" /\ svShapes # <<>>) =>
        Resolved = SizeTable(Num(ExtentWidth(svShapes)), Num(ExtentHeight(svShapes)),
                             svOpts)

\* C6, the part the code keeps: the table holds when no requested dimension
\* is 0
C6_TableForPositiveSizes ==
    (svPc = "done" /\ svShapes # <<>>
        /\ svOpts.width # Num(0) /\ svOpts.height # Num(0)) =>
        Resolved = SizeTable(Num(ExtentWidth(svShapes)), Num(ExtentHeight(svShapes)),
                             svOpts)

\* the shapes with non-empty text, in shape order
TextShapes(shapes) == SelectSeq(shapes, LAMBDA sh : sh.text # <<>>)

\* the style strings of a list of shapes, each once, in first-encounter order
DistinctStyles(shapes) ==
    LET idx == SelectSeq([j \in 1..Len(shapes) |-> j],
                   LAMBDA j : \A i \in 1..(j - 1) :
                       serializeStyle(shapes[i].styles) # serializeStyle(shapes[j].styles))
    IN  [k \in 1..Len(idx) |-> serializeStyle(shapes[idx[k]].styles)]

\* C10: the k-th distinct style string met over the shapes with non-empty
\* text gets class 's' + k (k from 0, no gaps); two shapes reference the same
\* class iff their style strings are equal; the style block holds one rule
\* per distinct style string; one text element is emitted per shape with
\* non-empty text, in shape order.
C10_StyleClasses ==
    svPc = "done" =>
        LET ts == TextShapes(svShapes)
            ds == DistinctStyles(ts)
        IN  /\ Len(svOut.textNodes) = Len(ts)
            /\ \A j \in 1..Len(ts) :
                  /\ svOut.textNodes[j].x = ts[j].x
                  /\ svOut.textNodes[j].y = ts[j].y
                  /\ svOut.textNodes[j].text = encodeSvgText(ts[j].text)
                  /\ \E k \in 1..Len(ds) :
                        /\ ds[k] = serializeStyle(ts[j].styles)
                        /\ svOut.textNodes[j].class = ClassName(k - 1)
            /\ \A i, j \in 1..Len(ts) :
                  (svOut.textNodes[i].class = svOut.textNodes[j].class)
                      <=> (serializeStyle(ts[i].styles) = serializeStyle(ts[j].styles))
            /\ Len(svOut.styleText) = Len(ds)
            /\ \A k \in 1..Len(ds) :
                  /\ svOut.styleText[k].style = ds[k]
                  /\ svOut.styleText[k].selector = ClassName(k - 1)

\* three shapes with text, the first and third of one style and the second
\* of another: classes s0, s1, s0 and two rules
C10_Witness ==
    /\ svPc = "done"
    /\ Len(svShapes) = 3
    /\ svShapes[1].text # <<>> /\ svShapes[2].text # <<>> /\ svShapes[3].text # <<>>
    /\ svShapes[1].styles = svShapes[3].styles
    /\ svShapes[1].styles # svShapes[2].styles
    /\ Len(svOut.textNodes) = 3
    /\ svOut.textNodes[1].class = ClassName(0)
    /\ svOut.textNodes[2].class = ClassName(1)
    /\ svOut.textNodes[3].class = ClassName(0)
    /\ Len(svOut.styleText) = 2

====
